---- MODULE Spec2Model ----
(***************************************************************************)
(* Model of tecken's symbol-upload ingestion (tecken/upload/views.py):     *)
(* the archive listing validator, the staging key, and upload_archive      *)
(* with its transaction, staging write, dispatch and reattempt scan.       *)
(*                                                                         *)
(* Text is modelled as a sequence of one-character strings, so that        *)
(* split, lower, endswith and substring search are computed as Python      *)
(* computes them.                                                          *)
(***************************************************************************)
EXTENDS Integers, Sequences, FiniteSets, TLC

(***************************************************************************)
(* Bounds of the model.                                                    *)
(***************************************************************************)
MaxMembers == 2
MaxSegments == 4
MaxTime == 5
MaxUploads == 3
DayLength == 3
MaxExceptions == 2
MaxVisibleAfter == 16
MaxCalls == 2

(***************************************************************************)
(* Python str helpers.                                                     *)
(***************************************************************************)
UpperChars == <<"A","B","C","D","E","F","G","H","I","J","K","L","M",
                "N","O","P","Q","R","S","T","U","V","W","X","Y","Z">>
LowerChars == <<"a","b","c","d","e","f","g","h","i","j","k","l","m",
                "n","o","p","q","r","s","t","u","v","w","x","y","z">>

\* str.lower() on one character
LowerChar(c) ==
    IF \E i \in 1..26 : UpperChars[i] = c
    THEN LowerChars[CHOOSE i \in 1..26 : UpperChars[i] = c]
    ELSE c

\* str.lower()
Lower(s) == [i \in 1..Len(s) |-> LowerChar(s[i])]

\* str.endswith(suffix)
EndsWith(s, suffix) ==
    /\ Len(suffix) <= Len(s)
    /\ SubSeq(s, Len(s) - Len(suffix) + 1, Len(s)) = suffix

\* the `in` operator on two strings: substring search
Contains(s, sub) ==
    \E i \in 1..(Len(s) - Len(sub) + 1) : SubSeq(s, i, i + Len(sub) - 1) = sub

RECURSIVE SplitFrom(_, _, _)
\* str.split(sep) for a one-character sep; cur is the segment being read
SplitFrom(s, sep, cur) ==
    IF s = << >> THEN <<cur>>
    ELSE IF Head(s) = sep THEN <<cur>> \o SplitFrom(Tail(s), sep, << >>)
    ELSE SplitFrom(Tail(s), sep, Append(cur, Head(s)))

Split(s, sep) == SplitFrom(s, sep, << >>)

RECURSIVE Join(_, _)
\* sep.join(parts)
Join(parts, sep) ==
    IF parts = << >> THEN << >>
    ELSE IF Len(parts) = 1 THEN parts[1]
    ELSE parts[1] \o sep \o Join(Tail(parts), sep)

(***************************************************************************)
(* check_symbols_archive_file_listing                                      *)
(***************************************************************************)
HexDigits == {"a","b","c","d","e","f","0","1","2","3","4","5","6","7","8","9"}

\* mutation: the pattern compiled without re.I
NotHexCaseSensitive(s) == {i \in 1..Len(s) : s[i] \notin HexDigits}

\* _not_hex_characters.findall(s): the positions of s that match [^a-f0-9]
\* under re.I
NotHexCharacters(s) == {i \in 1..Len(s) : LowerChar(s[i]) \notin HexDigits}

SymbolsTxt == <<"-","s","y","m","b","o","l","s",".","t","x","t">>

\* settings.DISALLOWED_SYMBOLS_SNIPPETS, in configuration order
DISALLOWED_SYMBOLS_SNIPPETS == << <<"t","/","x">>, <<"0","/","F">> >>

NoError == [error |-> "None", snippet |-> << >>]
SnippetError(snippet) ==
    [error |-> "Content of archive file contains the snippet which is not allowed",
     snippet |-> snippet]
UnrecognizedError ==
    [error |-> "Unrecognized file pattern. Should only be <module>/<hex>/<file> or <name>-symbols.txt and nothing else.",
     snippet |-> << >>]

\* the inner for loop: index of the first snippet, in configuration order,
\* that occurs in the name; 0 when none does
FirstSnippet(name) ==
    IF \E k \in 1..Len(DISALLOWED_SYMBOLS_SNIPPETS) :
           Contains(name, DISALLOWED_SYMBOLS_SNIPPETS[k])
    THEN CHOOSE k \in 1..Len(DISALLOWED_SYMBOLS_SNIPPETS) :
           /\ Contains(name, DISALLOWED_SYMBOLS_SNIPPETS[k])
           /\ \A j \in 1..(k - 1) : ~Contains(name, DISALLOWED_SYMBOLS_SNIPPETS[j])
    ELSE 0

\* the if/elif that reaches `continue`
PatternContinues(name) ==
    LET split == Split(name, "/") IN
    IF Len(split) = 3 THEN NotHexCharacters(split[2]) = {}
    ELSE IF Len(split) = 1 THEN EndsWith(Lower(name), SymbolsTxt)
    ELSE FALSE

\* mutation: the pattern is checked before the denylist
RECURSIVE CheckPatternFirst(_)
CheckPatternFirst(file_listings) ==
    IF file_listings = << >> THEN NoError
    ELSE LET name == Head(file_listings).name IN
         IF ~PatternContinues(name) THEN UnrecognizedError
         ELSE IF FirstSnippet(name) # 0
         THEN SnippetError(DISALLOWED_SYMBOLS_SNIPPETS[FirstSnippet(name)])
         ELSE CheckPatternFirst(Tail(file_listings))

RECURSIVE check_symbols_archive_file_listing(_)
check_symbols_archive_file_listing(file_listings) ==
    IF file_listings = << >> THEN NoError
    ELSE LET name == Head(file_listings).name IN
         IF FirstSnippet(name) # 0
         THEN SnippetError(DISALLOWED_SYMBOLS_SNIPPETS[FirstSnippet(name)])
         ELSE IF PatternContinues(name)
         THEN check_symbols_archive_file_listing(Tail(file_listings))
         ELSE UnrecognizedError

(***************************************************************************)
(* The staging key (upload_archive, "Turn the file listing into a string   *)
(* to turn it into a hash").                                               *)
(***************************************************************************)
DigitChars == <<"0","1","2","3","4","5","6","7","8","9">>

RECURSIVE FormatInt(_)
\* '{}'.format(n) for a size n >= 0
FormatInt(n) ==
    IF n < 10 THEN <<DigitChars[n + 1]>>
    ELSE Append(FormatInt(n \div 10), DigitChars[(n % 10) + 1])

\* '\n'.join('{}:{}'.format(x.name, x.size) for x in file_listing)
ListingContent(file_listing) ==
    Join([i \in 1..Len(file_listing) |->
             file_listing[i].name \o <<":">> \o FormatInt(file_listing[i].size)],
         <<"\n">>)

\* hashlib.md5(content.encode('utf-8')).hexdigest()[:12].  The digest is a
\* function of the content alone; it is kept symbolic and taken to be free
\* of collisions on the texts of the model, the case most favourable to a
\* claim that two fingerprints differ.
ContentHash(content) == <<"md5[:12]", content>>

\* timezone.now().strftime('%Y-%m-%d'): the calendar day of a clock value
DateOf(t) == t \div DayLength

\* mutation: the key carries the clock value instead of the calendar day
InboxKeyTimestamp(file_listing, name, t) ==
    <<"inbox", t, ContentHash(ListingContent(file_listing)), name>>

\* 'inbox/{date}/{content_hash}/{name}', kept as its four '/'-separated parts
InboxKey(file_listing, name, t) ==
    <<"inbox", DateOf(t), ContentHash(ListingContent(file_listing)), name>>

(***************************************************************************)
(* Inputs of the model.                                                    *)
(***************************************************************************)
Member(name, size) == [name |-> name, size |-> size]

\* path segments the member names are built from: an upper-case hex id and
\* a mixed-case <name>-symbols.txt
Segments == { <<"F","0">>, <<"x","-","S","y","m","b","o","l","s",".","t","x","t">> }

AppSym == <<"a","p","p",".","p","d","b","/",
            "A","B","C","D","E","F","0","1","2","3","4","5","6","7","8","9",
            "/","a","p","p",".","s","y","m">>
CrashSymbolsTxt == <<"c","r","a","s","h">> \o SymbolsTxt
ReadmeTxt == <<"r","e","a","d","m","e",".","t","x","t">>
EmptyMiddle == <<"F","0","/","/","F","0">>

MemberNames ==
    { Join(ss, <<"/">>) : ss \in UNION { [1..n -> Segments] : n \in 1..MaxSegments } }
    \cup {AppSym, CrashSymbolsTxt, ReadmeTxt, EmptyMiddle}

Listings ==
    UNION { [1..n -> {Member(nm, 1) : nm \in MemberNames}] : n \in 0..MaxMembers }

\* a member name that holds the text of two listing lines
TwoLines == SymbolsTxt \o <<":","1","\n">> \o SymbolsTxt

\* the members of the listings the two requests are drawn from
KeyMembers ==
    { Member(SymbolsTxt, 1), Member(SymbolsTxt, 2), Member(TwoLines, 2),
      Member(ReadmeTxt, 1) }

KeyListings == UNION { [1..n -> KeyMembers] : n \in 1..MaxMembers }

FileNames == {"symbols.zip", "other.zip"}

KeyTimes == {0, 1, DayLength}

KeyRequests == [listing : KeyListings, name : FileNames, t : KeyTimes]

(***************************************************************************)
(* get_bucket_info                                                         *)
(***************************************************************************)
RECURSIVE FnMatch(_, _)
\* fnmatch.fnmatch(name, pat) for patterns made of literal characters, '*'
\* and '?'
FnMatch(name, pat) ==
    IF pat = << >> THEN name = << >>
    ELSE IF Head(pat) = "*"
         THEN \/ FnMatch(name, Tail(pat))
              \/ name # << >> /\ FnMatch(Tail(name), pat)
    ELSE IF Head(pat) = "?"
         THEN name # << >> /\ FnMatch(Tail(name), Tail(pat))
    ELSE name # << >> /\ Head(name) = Head(pat) /\ FnMatch(Tail(name), Tail(pat))

\* settings.UPLOAD_DEFAULT_URL
UPLOAD_DEFAULT_URL == "default"

\* the positions of the table whose key is `key`; a dict has at most one
KeyAt(table, key) == {k \in 1..Len(table) : table[k].key = key}

\* lines 93-99: the first entry, in the order of the table, whose lowered
\* key matches the lowered email; 0 when none does
FirstFnMatch(table, address) ==
    LET hits == {k \in 1..Len(table) : FnMatch(Lower(address), Lower(table[k].key))}
    IN IF hits = {} THEN 0 ELSE CHOOSE k \in hits : \A j \in hits : k <= j

\* lines 85-102: the URL handed to S3Bucket(url)
get_bucket_info(address, table) ==
    LET exception ==
          IF KeyAt(table, Lower(address)) # {}
          THEN table[CHOOSE k \in KeyAt(table, Lower(address)) : TRUE].url
          ELSE IF FirstFnMatch(table, address) # 0
               THEN table[FirstFnMatch(table, address)].url
               ELSE ""
    IN IF exception # "" THEN exception ELSE UPLOAD_DEFAULT_URL

\* requesters and tables of settings.UPLOAD_URL_EXCEPTIONS
Addresses ==
    { <<"p","@","m">>, <<"P","@","M">>, <<"q","@","m">>, <<"p","@","n">> }
ExceptionKeys ==
    { <<"p","@","m">>, <<"P","@","m">>, <<"*","@","m">>, <<"*","@","M">>,
      <<"p","@","*">>, <<"?","@","n">> }
ExceptionUrls == {"private", "other", "third"}
\* a dict in insertion order: the keys are distinct
ExceptionTables ==
    {t \in UNION {[1..n -> [key : ExceptionKeys, url : ExceptionUrls]] :
                     n \in 0..MaxExceptions} :
        \A i, j \in 1..Len(t) : t[i].key = t[j].key => i = j}

(***************************************************************************)
(* Settings read by upload_archive.                                        *)
(***************************************************************************)
\* settings.UPLOAD_REATTEMPT_LIMIT_SECONDS, in clock ticks
UPLOAD_REATTEMPT_LIMIT_SECONDS == 2
\* settings.UPLOAD_REATTEMPT_LIMIT_TIMES
UPLOAD_REATTEMPT_LIMIT_TIMES == 1

AllWorkers == {1, 2}
UploadIds == 1..MaxUploads

VARIABLES
    listingIn,      \* the file listing given to the validator
    listingOut,     \* what the validator returned for it
    keyIn,          \* two ingestion requests: listing, filename, clock
    keyOut,         \* their staging keys
    workers,        \* the workers that handle requests
    bucket,         \* what the object store answers to head_bucket
    now,            \* the clock, timezone.now()
    db,             \* the committed Upload records
    nextId,         \* the next value of the Upload id sequence
    staged,         \* the staged inbox keys (object store or inbox directory)
    cache,          \* expiry of the cache entry 'reattempt:<id>', 0 when never set
    dispatched,     \* per upload id, the calls of upload_inbox_upload.delay so far
    pc,             \* where each worker's request stands
    req,            \* the request a worker handles: name, key, id and what it carries
    txn,            \* the Upload records of a worker's open transaction
    scanList,       \* the rows of incomplete_uploads still to be visited
    scanNow,        \* timezone.now() of the worker's incomplete_uploads filter
    resp,           \* the response the step just taken returned, if it returned one
    email,          \* user.email of a get_bucket_info call
    exceptions,     \* settings.UPLOAD_URL_EXCEPTIONS of that call
    bucketUrl,      \* the URL get_bucket_info chose
    pollPc,         \* where the wait for the inbox file stands
    attempts,       \* the local variable attempts of that wait
    slept,          \* the time.sleep calls of that wait, in order
    visibleAfter,   \* seconds after the write at which os.path.isfile turns true, -1: never
    storageUrl,     \* the configuration URL a StorageBucket is made of
    filePrefix,     \* the file_prefix it is made with
    storageBucket,  \* the descriptor, or the failure of its construction
    descriptor,     \* the StorageBucket the workers share
    client,         \* its cached backend client, 0 before first use
    sessions,       \* how many clients have been constructed for it
    lock,           \* the worker that holds the lock of the construction, 0: free
    clientPc,       \* where each worker's use of the descriptor stands
    handle,         \* the client each worker's access returned
    probe,          \* what the backend answered to each worker's probe
    existsOut,      \* what exists() gave each worker
    calls           \* how many times each worker has called exists()

bucketVars == <<email, exceptions, bucketUrl>>
\* the variables of the functions checked on their own, besides the
\* validator's and the key's
pollVars == <<pollPc, attempts, slept, visibleAfter>>
resolveVars == <<storageUrl, filePrefix, storageBucket>>
clientVars == <<descriptor, client, sessions, lock, clientPc, handle, probe,
                existsOut, calls>>
storageVars == <<resolveVars, clientVars>>
auxVars == <<bucketVars, pollVars, storageVars>>
pureVars == <<listingIn, listingOut, keyIn, keyOut, auxVars>>
reqVars == <<workers, bucket, now, db, nextId, staged, cache, dispatched, pc, req,
             txn, scanList, scanNow, resp>>
vars == <<listingIn, listingOut, keyIn, keyOut, workers, bucket, now, db,
          nextId, staged, cache, dispatched, pc, req, txn, scanList, scanNow,
          resp, auxVars>>

Pending == [error |-> "pending", snippet |-> << >>]

Message(text) == [error |-> text, snippet |-> << >>]
\* a response: the worker, the status, the error payload, the id of the
\* request's upload, and for a 400 the request it answers
Response(w, status, error, id, of) ==
    [w |-> w, status |-> status, error |-> error, id |-> id, of |-> of]
NoInput ==
    [files |-> 0, url |-> FALSE, form_valid |-> FALSE, size |-> 0, archive |-> "",
     listing |-> << >>]
NoResponse == Response(0, 0, NoError, 0, NoInput)
\* the calls of upload_inbox_upload.delay for one upload id: how many line
\* 297 made (new) and how many the reattempt loop made (n); of the loop's
\* last call the clock value (at), the worker (w) and the upload its
\* request created (by)
NoDelay == [new |-> 0, n |-> 0, at |-> 0, w |-> 0, by |-> 0]

NoRequest == [name |-> "", key |-> << >>, id |-> 0, of |-> NoInput]

\* the request state of a process that handles no request
IdleRequests ==
    /\ workers = {}
    /\ bucket = "200"
    /\ now = 0
    /\ db = {}
    /\ nextId = 1
    /\ staged = {}
    /\ cache = [i \in UploadIds |-> 0]
    /\ dispatched = [i \in UploadIds |-> NoDelay]
    /\ pc = [w \in AllWorkers |-> "idle"]
    /\ req = [w \in AllWorkers |-> NoRequest]
    /\ txn = [w \in AllWorkers |-> {}]
    /\ scanList = [w \in AllWorkers |-> << >>]
    /\ scanNow = [w \in AllWorkers |-> 0]
    /\ resp = NoResponse

\* no call of get_bucket_info is looked at
BucketIdle ==
    /\ email = << >>
    /\ exceptions = << >>
    /\ bucketUrl = ""

\* no wait for an inbox file is looked at
PollIdle ==
    /\ pollPc = "idle"
    /\ attempts = 0
    /\ slept = << >>
    /\ visibleAfter = 0

\* no construction of a StorageBucket is looked at
ResolveIdle ==
    /\ storageUrl = << >>
    /\ filePrefix = << >>
    /\ storageBucket = << >>

\* no use of a StorageBucket's client is looked at
ClientIdle ==
    /\ descriptor = << >>
    /\ client = 0
    /\ sessions = 0
    /\ lock = 0
    /\ clientPc = [w \in AllWorkers |-> "idle"]
    /\ handle = [w \in AllWorkers |-> 0]
    /\ probe = [w \in AllWorkers |-> ""]
    /\ existsOut = [w \in AllWorkers |-> ""]
    /\ calls = [w \in AllWorkers |-> 0]

StorageIdle == ResolveIdle /\ ClientIdle

AuxIdle == BucketIdle /\ PollIdle /\ StorageIdle

InitListing ==
    /\ AuxIdle
    /\ listingIn \in Listings
    /\ listingOut = Pending
    /\ keyIn = << >>
    /\ keyOut = << >>
    /\ IdleRequests

\* one call of check_symbols_archive_file_listing
Validate ==
    /\ listingOut = Pending
    /\ listingOut' = check_symbols_archive_file_listing(listingIn)
    /\ UNCHANGED <<listingIn, keyIn, keyOut>>
    /\ UNCHANGED auxVars
    /\ UNCHANGED reqVars

SpecListing == InitListing /\ [][Validate]_vars

InitKey ==
    /\ AuxIdle
    /\ listingIn = << >>
    /\ listingOut = Pending
    /\ keyIn \in [1..2 -> KeyRequests]
    /\ keyOut = << >>
    /\ IdleRequests

\* the key of each of two requests that passed the listing check
ComputeKeys ==
    /\ keyOut = << >>
    /\ \A i \in 1..2 : check_symbols_archive_file_listing(keyIn[i].listing) = NoError
    /\ keyOut' = [i \in 1..2 |-> InboxKey(keyIn[i].listing, keyIn[i].name, keyIn[i].t)]
    /\ UNCHANGED <<listingIn, listingOut, keyIn>>
    /\ UNCHANGED auxVars
    /\ UNCHANGED reqVars

SpecKey == InitKey /\ [][ComputeKeys]_vars

\* neither the validator nor the key computation is looked at
ListingIdle ==
    /\ listingIn = << >>
    /\ listingOut = Pending
    /\ keyIn = << >>
    /\ keyOut = << >>

InitBucket ==
    /\ ListingIdle
    /\ IdleRequests
    /\ PollIdle
    /\ StorageIdle
    /\ email \in Addresses
    /\ exceptions \in ExceptionTables
    /\ bucketUrl = ""

\* one call of get_bucket_info
ResolveBucket ==
    /\ bucketUrl = ""
    /\ bucketUrl' = get_bucket_info(email, exceptions)
    /\ UNCHANGED <<email, exceptions>>
    /\ UNCHANGED <<pollVars, storageVars>>
    /\ UNCHANGED <<listingIn, listingOut, keyIn, keyOut>>
    /\ UNCHANGED reqVars

SpecBucket == InitBucket /\ [][ResolveBucket]_vars

(***************************************************************************)
(* The wait for the inbox file, filesystem mode (lines 248-262).           *)
(***************************************************************************)
RECURSIVE Sum(_)
Sum(seq) == IF seq = << >> THEN 0 ELSE Head(seq) + Sum(Tail(seq))

\* os.path.isfile(inbox_filepath), the sleeps being the time that passes
IsFile == visibleAfter >= 0 /\ Sum(slept) >= visibleAfter

\* mutation: the loop gives up one round later
PollBreaksLate(n) == n > 5

\* line 261: if attempts > 4: break
PollBreaks(n) == n > 4

InitPoll ==
    /\ ListingIdle
    /\ IdleRequests
    /\ BucketIdle
    /\ StorageIdle
    /\ pollPc = "isfile"
    /\ attempts = 0
    /\ slept = << >>
    /\ visibleAfter \in -1..MaxVisibleAfter

\* line 254: while not os.path.isfile(...); line 255: attempts += 1
PollIsFile ==
    /\ pollPc = "isfile"
    /\ IF IsFile
       THEN pollPc' = "delay" /\ UNCHANGED attempts
       ELSE pollPc' = "sleep" /\ attempts' = attempts + 1
    /\ UNCHANGED <<slept, visibleAfter>>

\* lines 256-262: time.sleep(attempts), then break or go round
PollSleep ==
    /\ pollPc = "sleep"
    /\ slept' = Append(slept, attempts)
    /\ pollPc' = IF PollBreaks(attempts) THEN "delay" ELSE "isfile"
    /\ UNCHANGED <<attempts, visibleAfter>>

\* line 297: the request carries on to upload_inbox_upload.delay
PollDelay ==
    /\ pollPc = "delay"
    /\ pollPc' = "dispatched"
    /\ UNCHANGED <<attempts, slept, visibleAfter>>

NextPoll ==
    /\ PollIsFile \/ PollSleep \/ PollDelay
    /\ UNCHANGED <<bucketVars, storageVars>>
    /\ UNCHANGED <<listingIn, listingOut, keyIn, keyOut>>
    /\ UNCHANGED reqVars

\* the request's thread keeps running: no step of the wait is put off for ever
SpecPoll == InitPoll /\ [][NextPoll]_vars /\ WF_vars(NextPoll)

(***************************************************************************)
(* tecken.storage.StorageBucket: the storage descriptor of a configuration *)
(* URL.  A URL is held in its parsed parts (scheme, netloc, path, query),  *)
(* each a text, and the descriptor is computed as sections 4.1 and 4.2 of  *)
(* the specification and the cases of tests/test_storage.py give it.       *)
(***************************************************************************)
\* str.startswith(prefix)
StartsWith(s, prefix) ==
    /\ Len(prefix) <= Len(s)
    /\ SubSeq(s, 1, Len(prefix)) = prefix

\* the host patterns of the backends
EmulatedHost == <<"m","i","n","i","o">>
AlternateCloudHost == <<"s","t","o","r","a","g","e",".","g","o","o","g","l","e","a","p","i","s",".","c","o","m">>
StandardDomain == <<".","a","m","a","z","o","n","a","w","s",".","c","o","m">>
StandardService == <<"s","3","-">>
TestHost == <<"s","3",".","e","x","a","m","p","l","e",".","c","o","m">>

\* the table of recognized regions
RecognizedRegions == { <<"e","u","-","w","e","s","t","-","2">>, <<"u","s","-","w","e","s","t","-","2">> }

\* the marker of public access in the query
PublicMarker == <<"a","c","c","e","s","s","=","p","u","b","l","i","c">>

\* None, for a text
NoText == << >>

\* the backend by the priority order of the host patterns, "" when none
\* matches
Backend(netloc) ==
    IF Contains(netloc, EmulatedHost) THEN "emulated-s3"
    ELSE IF Contains(netloc, AlternateCloudHost) THEN "gcs"
    ELSE IF Contains(netloc, StandardDomain) THEN "s3"
    ELSE IF Contains(netloc, TestHost) THEN "test-s3"
    ELSE ""

\* the region token of <service>-<region>.<domain>, NoText when there is none
RegionToken(netloc) ==
    IF StartsWith(netloc, StandardService) /\ EndsWith(netloc, StandardDomain)
    THEN SubSeq(netloc, Len(StandardService) + 1, Len(netloc) - Len(StandardDomain))
    ELSE NoText

\* mutation: a region outside the table is taken as it comes
AnyRegionRecognized(region) == TRUE

RegionRecognized(region) == region \in RecognizedRegions

\* the path without its leading "/"
PathOf(path) == IF path = << >> THEN << >> ELSE Tail(path)

\* where the first "/" of s is, 0 when it has none
FirstSlash(s) ==
    IF \E i \in 1..Len(s) : s[i] = "/"
    THEN CHOOSE i \in 1..Len(s) : s[i] = "/" /\ \A j \in 1..(i - 1) : s[j] # "/"
    ELSE 0

\* the bucket: the first segment of the path
NameOf(path) ==
    IF FirstSlash(PathOf(path)) = 0 THEN PathOf(path)
    ELSE SubSeq(PathOf(path), 1, FirstSlash(PathOf(path)) - 1)

\* mutation: the trailing "/" of the path stays
KeepSlash(s) == s

\* one trailing "/" is taken off
StripSlash(s) == IF EndsWith(s, <<"/">>) THEN SubSeq(s, 1, Len(s) - 1) ELSE s

\* the prefix the URL gives: the rest of the path
ParsedPrefix(path) ==
    IF FirstSlash(PathOf(path)) = 0 THEN NoText
    ELSE StripSlash(SubSeq(PathOf(path), FirstSlash(PathOf(path)) + 1,
                           Len(PathOf(path))))

\* the prefix with the file prefix
WithFilePrefix(prefix, file_prefix) ==
    IF file_prefix = NoText THEN prefix
    ELSE IF prefix = NoText THEN file_prefix
    ELSE prefix \o <<"/">> \o file_prefix

\* the endpoint override: none for the standard object store, scheme and
\* host for the emulated and the test one, the whole URL for the alternate
\* cloud
EndpointUrl(backend, url) ==
    IF backend = "s3" THEN NoText
    ELSE IF backend = "gcs"
    THEN url.scheme \o <<":","/","/">> \o url.netloc \o url.path
           \o (IF url.query = NoText THEN NoText ELSE <<"?">> \o url.query)
    ELSE url.scheme \o <<":","/","/">> \o url.netloc

Failure(kind) ==
    [error |-> kind, backend |-> "", endpoint_url |-> NoText, name |-> NoText,
     prefix |-> NoText, private |-> TRUE, region |-> NoText]

\* StorageBucket(url, file_prefix=...)
StorageBucket(url, file_prefix) ==
    IF Backend(url.netloc) = "" THEN Failure("unknown backend")
    ELSE IF /\ Backend(url.netloc) = "s3"
            /\ RegionToken(url.netloc) # NoText
            /\ ~RegionRecognized(RegionToken(url.netloc))
    THEN Failure("unknown region")
    ELSE [error |-> "",
          backend |-> Backend(url.netloc),
          endpoint_url |-> EndpointUrl(Backend(url.netloc), url),
          name |-> NameOf(url.path),
          prefix |-> WithFilePrefix(ParsedPrefix(url.path), file_prefix),
          private |-> ~Contains(url.query, PublicMarker),
          region |-> IF Backend(url.netloc) = "s3"
                     THEN RegionToken(url.netloc) ELSE NoText]

\* the backend variant of a descriptor
VariantOf(d) ==
    IF d.backend = "emulated-s3" THEN "emulated"
    ELSE IF d.backend = "gcs" THEN "alternate-cloud"
    ELSE IF d.backend = "test-s3" THEN "test"
    ELSE IF d.backend = "s3" /\ d.region # NoText THEN "region-pinned"
    ELSE IF d.backend = "s3" THEN "standard"
    ELSE ""

Netlocs ==
    { <<"s","3",".","a","m","a","z","o","n","a","w","s",".","c","o","m">>,
      <<"s","3","-","e","u","-","w","e","s","t","-","2",".","a","m","a","z","o","n","a","w","s",".","c","o","m">>,
      <<"s","3","-","u","n","h","e","a","r","d","o","f",".","a","m","a","z","o","n","a","w","s",".","c","o","m">>,
      <<"s","3",".","e","x","a","m","p","l","e",".","c","o","m">>,
      <<"m","i","n","i","o",":","9","0","0","0">>,
      <<"m","i","n","i","o",".","s","3",".","e","x","a","m","p","l","e",".","c","o","m",":","9","0","0","0">>,
      <<"s","t","o","r","a","g","e",".","g","o","o","g","l","e","a","p","i","s",".","c","o","m">>,
      <<"u","n","k","n","o","w","n","-","b","a","c","k","e","n","d",".","e","x","a","m","p","l","e",".","c","o","m">> }

Paths ==
    { <<"/","b","u","c","k","e","t">>, <<"/","b","u","c","k","e","t","/">>, <<"/","b","u","c","k","e","t","/","t","r","y">>, <<"/","b","u","c","k","e","t","/","f","a","i","l","/">>, <<"/","s","o","m","e","-","b","u","c","k","e","t","/","a","/","b">> }

Queries == { NoText, PublicMarker, <<"h","e","y","=","h","o">> }

FilePrefixes == { NoText, <<"v","0">>, <<"v","1">> }

StorageUrls ==
    [scheme : { <<"h","t","t","p">>, <<"h","t","t","p","s">> }, netloc : Netlocs, path : Paths, query : Queries]

\* the descriptor is not computed yet
Unresolved == Failure("pending")

InitResolve ==
    /\ ListingIdle
    /\ IdleRequests
    /\ BucketIdle
    /\ PollIdle
    /\ ClientIdle
    /\ storageUrl \in StorageUrls
    /\ filePrefix \in FilePrefixes
    /\ storageBucket = Unresolved

\* one construction of a StorageBucket
Resolve ==
    /\ storageBucket = Unresolved
    /\ storageBucket' = StorageBucket(storageUrl, filePrefix)
    /\ UNCHANGED <<storageUrl, filePrefix>>
    /\ UNCHANGED clientVars
    /\ UNCHANGED <<bucketVars, pollVars>>
    /\ UNCHANGED <<listingIn, listingOut, keyIn, keyOut>>
    /\ UNCHANGED reqVars

SpecResolve == InitResolve /\ [][Resolve]_vars

(***************************************************************************)
(* StorageBucket.client and StorageBucket.exists(): the backend client of  *)
(* a descriptor, built on first use under the descriptor's lock and kept,  *)
(* and the existence probe made with it.                                   *)
(***************************************************************************)
\* a client is a positive number, the order of its construction; None is 0
\* the descriptors of the deployment
Descriptors ==
    { StorageBucket([scheme |-> <<"h","t","t","p","s">>, netloc |-> n, path |-> <<"/","b","u","c","k","e","t">>,
                     query |-> NoText], NoText) :
        n \in { <<"s","3",".","a","m","a","z","o","n","a","w","s",".","c","o","m">>, <<"s","3","-","e","u","-","w","e","s","t","-","2",".","a","m","a","z","o","n","a","w","s",".","c","o","m">>,
                <<"s","3",".","e","x","a","m","p","l","e",".","c","o","m">>, <<"s","t","o","r","a","g","e",".","g","o","o","g","l","e","a","p","i","s",".","c","o","m">> } }

\* what the backend can answer to the probe: head_bucket of the object
\* store, get_bucket of the alternate cloud
ProbeAnswers(backend) ==
    IF backend = "gcs"
    THEN {"ok", "NotFound", "Forbidden", "TransportError"}
    ELSE {"200", "ClientError 404", "ClientError 403", "EndpointConnectionError"}

\* mutation: a bucket that may not be read counts as absent
ExistsForbiddenIsFalse(backend, answer) ==
    IF answer \in {"ok", "200"} THEN "True"
    ELSE IF answer \in {"NotFound", "ClientError 404", "Forbidden", "ClientError 403"}
    THEN "False"
    ELSE "StorageError"

\* exists(): what the call gives for an answer of the backend
Exists(backend, answer) ==
    IF backend = "gcs"
    THEN IF answer = "ok" THEN "True"
         ELSE IF answer = "NotFound" THEN "False"
         ELSE "StorageError"
    ELSE IF answer = "200" THEN "True"
         ELSE IF answer = "ClientError 404" THEN "False"
         ELSE "StorageError"

\* mutation: the lock never holds anybody back
LockAlwaysFree(holder) == TRUE

\* the lock of the construction is free
LockFree(holder) == holder = 0

InitClient ==
    /\ ListingIdle
    /\ IdleRequests
    /\ BucketIdle
    /\ PollIdle
    /\ ResolveIdle
    /\ descriptor \in Descriptors
    /\ client = 0
    /\ sessions = 0
    /\ lock = 0
    /\ clientPc = [w \in AllWorkers |-> "client"]
    /\ handle = [w \in AllWorkers |-> 0]
    /\ probe = [w \in AllWorkers |-> ""]
    /\ existsOut = [w \in AllWorkers |-> ""]
    /\ calls = [w \in AllWorkers |-> 0]

\* an access of .client: the client that is there is returned
ClientGet(w) ==
    /\ clientPc[w] = "client"
    /\ IF client # 0
       THEN /\ handle' = [handle EXCEPT ![w] = client]
            /\ clientPc' = [clientPc EXCEPT ![w] = "probe"]
       ELSE /\ clientPc' = [clientPc EXCEPT ![w] = "acquire"]
            /\ UNCHANGED handle
    /\ UNCHANGED <<descriptor, client, sessions, lock, probe, existsOut, calls>>

\* first use: the caller waits for the lock of the construction
ClientAcquire(w) ==
    /\ clientPc[w] = "acquire"
    /\ LockFree(lock)
    /\ lock' = w
    /\ clientPc' = [clientPc EXCEPT ![w] = "locked"]
    /\ UNCHANGED <<descriptor, client, sessions, handle, probe, existsOut, calls>>

\* under the lock: a client another caller built meanwhile is reused
ClientLocked(w) ==
    /\ clientPc[w] = "locked"
    /\ IF client # 0
       THEN /\ handle' = [handle EXCEPT ![w] = client]
            /\ lock' = 0
            /\ clientPc' = [clientPc EXCEPT ![w] = "reused"]
       ELSE /\ clientPc' = [clientPc EXCEPT ![w] = "build"]
            /\ UNCHANGED <<handle, lock>>
    /\ UNCHANGED <<descriptor, client, sessions, probe, existsOut, calls>>

\* the session and the client are made, kept, and the lock is given back
ClientBuild(w) ==
    /\ clientPc[w] = "build"
    /\ sessions' = sessions + 1
    /\ client' = sessions + 1
    /\ handle' = [handle EXCEPT ![w] = sessions + 1]
    /\ lock' = 0
    /\ clientPc' = [clientPc EXCEPT ![w] = "probe"]
    /\ UNCHANGED <<descriptor, probe, existsOut, calls>>

\* exists(): the probe with the handle, and what the backend answers
ClientExists(w) ==
    /\ clientPc[w] \in {"probe", "reused"}
    /\ \E answer \in ProbeAnswers(descriptor.backend) :
          /\ probe' = [probe EXCEPT ![w] = answer]
          /\ existsOut' = [existsOut EXCEPT ![w] =
                             Exists(descriptor.backend, answer)]
    /\ calls' = [calls EXCEPT ![w] = calls[w] + 1]
    /\ clientPc' = [clientPc EXCEPT ![w] = "done"]
    /\ UNCHANGED <<descriptor, client, sessions, lock, handle>>

\* a later use of the same descriptor
ClientAgain(w) ==
    /\ clientPc[w] = "done"
    /\ calls[w] < MaxCalls
    /\ clientPc' = [clientPc EXCEPT ![w] = "client"]
    /\ UNCHANGED <<descriptor, client, sessions, lock, handle, probe, existsOut, calls>>

NextClient ==
    /\ \E w \in AllWorkers :
          \/ ClientGet(w)
          \/ ClientAcquire(w)
          \/ ClientLocked(w)
          \/ ClientBuild(w)
          \/ ClientExists(w)
          \/ ClientAgain(w)
    /\ UNCHANGED resolveVars
    /\ UNCHANGED <<bucketVars, pollVars>>
    /\ UNCHANGED <<listingIn, listingOut, keyIn, keyOut>>
    /\ UNCHANGED reqVars

SpecClient == InitClient /\ [][NextClient]_vars

(***************************************************************************)
(* upload_archive                                                          *)
(***************************************************************************)
GoodListing == <<Member(AppSym, 1), Member(CrashSymbolsTxt, 2)>>
UnrecognizedListing == <<Member(CrashSymbolsTxt, 1), Member(ReadmeTxt, 1)>>
SnippetListing == <<Member(<<"F","0","/","F","0">>, 1)>>

\* what a request carries: the number of uploaded files, a POST 'url', the
\* verdict of UploadByDownloadForm, the size, how get_archive_members ends,
\* and the listing it yields
Input(files, url, form_valid, size, archive, listing) ==
    [files |-> files, url |-> url, form_valid |-> form_valid, size |-> size,
     archive |-> archive, listing |-> listing]

\* the inputs of the requests that run side by side
ConcurrentInputs ==
    { Input(1, FALSE, FALSE, 0, "zip", GoodListing),
      Input(1, FALSE, FALSE, 1, "zip", GoodListing) }

RequestInputs ==
    { Input(0, FALSE, FALSE, 1, "zip", GoodListing),
      Input(0, TRUE, FALSE, 1, "zip", GoodListing),
      Input(0, TRUE, TRUE, 0, "zip", GoodListing),
      Input(1, FALSE, FALSE, 0, "zip", GoodListing),
      Input(1, FALSE, FALSE, 0, "BadZipfile", GoodListing),
      Input(1, FALSE, FALSE, 1, "BadZipfile", GoodListing),
      Input(1, FALSE, FALSE, 1, "UnrecognizedArchiveFileExtension", GoodListing),
      Input(1, FALSE, FALSE, 1, "zip", UnrecognizedListing),
      Input(1, FALSE, FALSE, 1, "zip", SnippetListing),
      Input(1, FALSE, FALSE, 1, "zip", GoodListing),
      Input(2, TRUE, FALSE, 1, "zip", GoodListing),
      Input(0, TRUE, TRUE, 1, "zip", GoodListing) }

\* mutation: the size is never looked at
RejectionIgnoringSize(i) ==
    IF i.files = 0 /\ i.url /\ ~i.form_valid THEN Message("errors[0].message")
    ELSE IF i.files = 0 /\ ~i.url
    THEN Message("Must be multipart form data with at least one file")
    ELSE IF i.archive = "BadZipfile" THEN Message("str(BadZipfile)")
    ELSE IF i.archive = "UnrecognizedArchiveFileExtension"
    THEN Message("Unrecognized archive file extension")
    ELSE check_symbols_archive_file_listing(i.listing)

\* mutation: more than one uploaded file is refused
RejectionManyFiles(i) ==
    IF i.files = 0 /\ i.url /\ ~i.form_valid THEN Message("errors[0].message")
    ELSE IF i.files = 0 /\ ~i.url
    THEN Message("Must be multipart form data with at least one file")
    ELSE IF i.files > 1
    THEN Message("Must be multipart form data with at least one file")
    ELSE IF i.size = 0 THEN Message("File size 0")
    ELSE IF i.archive = "BadZipfile" THEN Message("str(BadZipfile)")
    ELSE IF i.archive = "UnrecognizedArchiveFileExtension"
    THEN Message("Unrecognized archive file extension")
    ELSE check_symbols_archive_file_listing(i.listing)

\* the 400 responses of upload_archive, in the order the code reaches them;
\* NoError when the request passes them all
Rejection(i) ==
    IF i.files = 0 /\ i.url /\ ~i.form_valid THEN Message("errors[0].message")
    ELSE IF i.files = 0 /\ ~i.url
    THEN Message("Must be multipart form data with at least one file")
    ELSE IF i.size = 0 THEN Message("File size 0")
    ELSE IF i.archive = "BadZipfile" THEN Message("str(BadZipfile)")
    ELSE IF i.archive = "UnrecognizedArchiveFileExtension"
    THEN Message("Unrecognized archive file extension")
    ELSE check_symbols_archive_file_listing(i.listing)

\* Rejection and the staging key of every input, evaluated once
RejectionOf == [i \in RequestInputs |-> Rejection(i)]
KeyOf == [i \in RequestInputs |->
            [t \in 0..MaxTime |-> InboxKey(i.listing, "symbols.zip", t)]]

\* mutation: the transaction commits whether or not the view raised
AtomicExitAlwaysCommits(committed, pending, raised) == committed \cup pending

\* @transaction.atomic around the view: commit on return, roll back when
\* an exception leaves it
AtomicExit(committed, pending, raised) ==
    IF raised THEN committed ELSE committed \cup pending

\* an exception leaves the view: the transaction ends and the response is
\* a server error
RaiseFor(w, exception, of) ==
    /\ db' = AtomicExit(db, txn[w], TRUE)
    /\ txn' = [txn EXCEPT ![w] = {}]
    /\ pc' = [pc EXCEPT ![w] = "idle"]
    /\ scanList' = [scanList EXCEPT ![w] = << >>]
    /\ resp' = Response(w, 500, Message(exception), req[w].id, of)
    /\ req' = [req EXCEPT ![w] = NoRequest]
    /\ scanNow' = [scanNow EXCEPT ![w] = 0]

Raise(w, exception) == RaiseFor(w, exception, NoInput)

\* what the object store may answer to head_bucket: the bucket is there, it
\* is not (ClientError 404), access is denied (ClientError 403), or the
\* store cannot be reached (not a ClientError)
HeadBucketAnswers == {"200", "404", "403", "EndpointConnectionError"}

\* mutation: a missing bucket is not noticed
HeadBucketIgnores404(answer) ==
    CASE answer = "200" -> ""
      [] answer = "404" -> ""
      [] answer = "403" -> "ClientError"
      [] OTHER -> answer

\* mutation: 'except ClientError' ends in pass instead of raise, and other
\* errors are caught as well
HeadBucketOnly404Raises(answer) ==
    IF answer = "404" THEN "ImproperlyConfigured" ELSE ""

\* lines 172-189: the exception that leaves upload_archive after
\* head_bucket, "" when none does
HeadBucket(answer) ==
    CASE answer = "200" -> ""
      [] answer = "404" -> "ImproperlyConfigured"
      [] answer = "403" -> "ClientError"
      [] OTHER -> answer

\* Upload.objects.create(...): a row of the open transaction
NewUpload(id, key, t, size) ==
    [id |-> id, key |-> key, size |-> size, created_at |-> t,
     completed |-> FALSE, cancelled |-> FALSE, attempts |-> 0]

\* lines 114-273: read the input and reject it, or probe the bucket, compute
\* the key and, inside transaction.atomic(), create the Upload.  A request
\* goes to the first idle worker; it is drawn from `inputs`.
Receive(w, inputs) ==
    /\ w \in workers
    /\ pc[w] = "idle"
    /\ \A v \in workers : v < w => pc[v] # "idle"
    /\ \E i \in inputs :
         IF RejectionOf[i] # NoError
         THEN /\ resp' = Response(w, 400, RejectionOf[i], 0, i)
              /\ db' = AtomicExit(db, txn[w], FALSE)
              /\ UNCHANGED <<pc, req, txn, scanList, scanNow, nextId>>
         ELSE IF HeadBucket(bucket) # ""
              THEN /\ RaiseFor(w, HeadBucket(bucket), i)
                   /\ UNCHANGED nextId
              ELSE /\ nextId <= MaxUploads
                   /\ nextId' = nextId + 1
                   /\ req' = [req EXCEPT ![w] =
                                [name |-> "symbols.zip", key |-> KeyOf[i][now],
                                 id |-> nextId, of |-> i]]
                   /\ txn' = [txn EXCEPT ![w] =
                                {NewUpload(nextId, KeyOf[i][now], now, i.size)}]
                   /\ pc' = [pc EXCEPT ![w] = "put_object"]
                   /\ resp' = NoResponse
                   /\ UNCHANGED <<db, scanList, scanNow>>
    /\ UNCHANGED <<workers, bucket, now, staged, cache, dispatched>>
    /\ UNCHANGED pureVars

\* mutation: an error of the staging write is swallowed and the request
\* carries on
StageSwallowsError(w) ==
    /\ w \in workers
    /\ pc[w] = "put_object"
    /\ \E written \in BOOLEAN :
         staged' = IF written THEN staged \cup {req[w].key} ELSE staged
    /\ pc' = [pc EXCEPT ![w] = "delay"]
    /\ resp' = NoResponse
    /\ UNCHANGED <<db, req, txn, scanList, scanNow>>
    /\ UNCHANGED <<workers, bucket, now, nextId, cache, dispatched>>
    /\ UNCHANGED pureVars

\* lines 230-294: write the inbox file: open/write followed by the bounded
\* os.path.isfile poll, or put_object.  The call blocks; it returns or it
\* raises, and the poll changes nothing the requests share.
Stage(w) ==
    /\ w \in workers
    /\ pc[w] = "put_object"
    /\ \E written \in BOOLEAN :
         IF written
         THEN /\ staged' = staged \cup {req[w].key}
              /\ pc' = [pc EXCEPT ![w] = "delay"]
              /\ resp' = NoResponse
              /\ UNCHANGED <<db, req, txn, scanList, scanNow>>
         ELSE /\ Raise(w, "staging write")
              /\ UNCHANGED staged
    /\ UNCHANGED <<workers, bucket, now, nextId, cache, dispatched>>
    /\ UNCHANGED pureVars

\* line 297: upload_inbox_upload.delay(upload_obj.id)
Dispatch(w) ==
    /\ w \in workers
    /\ pc[w] = "delay"
    /\ dispatched' = [dispatched EXCEPT ![req[w].id].new = @ + 1]
    /\ resp' = NoResponse
    /\ pc' = [pc EXCEPT ![w] = "filter"]
    /\ UNCHANGED <<workers, bucket, now, db, nextId, staged, cache, req, txn,
                   scanList, scanNow>>
    /\ UNCHANGED pureVars

\* mutation: the age comparison is turned round (created_at__gt)
IncompleteUploadsYoung(rows, t) ==
    { r \in rows : /\ ~r.completed
                   /\ ~r.cancelled
                   /\ r.created_at > t - UPLOAD_REATTEMPT_LIMIT_SECONDS
                   /\ r.attempts < UPLOAD_REATTEMPT_LIMIT_TIMES }

\* mutation: attempts__lte instead of attempts__lt
IncompleteUploadsLte(rows, t) ==
    { r \in rows : /\ ~r.completed
                   /\ ~r.cancelled
                   /\ r.created_at < t - UPLOAD_REATTEMPT_LIMIT_SECONDS
                   /\ r.attempts <= UPLOAD_REATTEMPT_LIMIT_TIMES }

\* lines 303-312: Upload.objects.filter(completed_at__isnull=True,
\* cancelled_at__isnull=True, created_at__lt=now - seconds, attempts__lt=times)
IncompleteUploads(rows, t) ==
    { r \in rows : /\ ~r.completed
                   /\ ~r.cancelled
                   /\ r.created_at < t - UPLOAD_REATTEMPT_LIMIT_SECONDS
                   /\ r.attempts < UPLOAD_REATTEMPT_LIMIT_TIMES }

RECURSIVE OrderByCreatedAt(_)
\* .order_by('created_at'); rows of equal created_at in id order
OrderByCreatedAt(rows) ==
    IF rows = {} THEN << >>
    ELSE LET first == CHOOSE r \in rows :
                        \A o \in rows : \/ r.created_at < o.created_at
                                        \/ /\ r.created_at = o.created_at
                                           /\ r.id <= o.id
         IN <<first>> \o OrderByCreatedAt(rows \ {first})

\* lines 303-313: the queryset is evaluated when the for loop starts; it
\* reads the committed rows and the rows of the worker's own transaction
Filter(w) ==
    /\ w \in workers
    /\ pc[w] = "filter"
    /\ scanNow' = [scanNow EXCEPT ![w] = now]
    /\ scanList' = [scanList EXCEPT ![w] =
                      OrderByCreatedAt(IncompleteUploads(db \cup txn[w], now))]
    /\ pc' = [pc EXCEPT ![w] = "get"]
    /\ resp' = NoResponse
    /\ UNCHANGED <<workers, bucket, now, db, nextId, staged, cache, dispatched, req, txn>>
    /\ UNCHANGED pureVars

\* mutation: the cache is never consulted
CacheGetMiss(id) == FALSE

\* cache.get('reattempt:<id>'): the entry is there until its expiry
CacheGet(id) == cache[id] > now

\* lines 314-315: cache.get for the next row of the loop
Get(w) ==
    /\ w \in workers
    /\ pc[w] = "get"
    /\ scanList[w] # << >>
    /\ IF CacheGet(Head(scanList[w]).id)
       THEN /\ scanList' = [scanList EXCEPT ![w] = Tail(scanList[w])]
            /\ UNCHANGED pc
       ELSE /\ pc' = [pc EXCEPT ![w] = "reattempt"]
            /\ UNCHANGED scanList
    /\ resp' = NoResponse
    /\ UNCHANGED <<workers, bucket, now, db, nextId, staged, cache, dispatched, req, txn,
                   scanNow>>
    /\ UNCHANGED pureVars

\* mutation: the loop re-dispatches and forgets the cache.set
ReattemptWithoutCacheSet(w) ==
    /\ w \in workers
    /\ pc[w] = "reattempt"
    /\ dispatched' = [dispatched EXCEPT ![Head(scanList[w]).id] =
                         [new |-> @.new, n |-> @.n + 1, at |-> now, w |-> w,
                          by |-> req[w].id]]
    /\ resp' = NoResponse
    /\ scanList' = [scanList EXCEPT ![w] = Tail(scanList[w])]
    /\ pc' = [pc EXCEPT ![w] = "get"]
    /\ UNCHANGED <<workers, bucket, now, db, nextId, staged, req, txn, scanNow, cache>>
    /\ UNCHANGED pureVars

\* lines 319-324: upload_inbox_upload.delay(old_upload_obj.id), then
\* cache.set(cache_key, True, settings.UPLOAD_REATTEMPT_LIMIT_SECONDS)
Reattempt(w) ==
    /\ w \in workers
    /\ pc[w] = "reattempt"
    /\ dispatched' = [dispatched EXCEPT ![Head(scanList[w]).id] =
                         [new |-> @.new, n |-> @.n + 1, at |-> now, w |-> w,
                          by |-> req[w].id]]
    /\ resp' = NoResponse
    /\ cache' = [cache EXCEPT ![Head(scanList[w]).id] =
                    now + UPLOAD_REATTEMPT_LIMIT_SECONDS]
    /\ scanList' = [scanList EXCEPT ![w] = Tail(scanList[w])]
    /\ pc' = [pc EXCEPT ![w] = "get"]
    /\ UNCHANGED <<workers, bucket, now, db, nextId, staged, req, txn, scanNow>>
    /\ UNCHANGED pureVars

\* lines 326-329: the loop is over; return 201 and leave the transaction
Respond(w) ==
    /\ w \in workers
    /\ pc[w] = "get"
    /\ scanList[w] = << >>
    /\ db' = AtomicExit(db, txn[w], FALSE)
    /\ txn' = [txn EXCEPT ![w] = {}]
    /\ pc' = [pc EXCEPT ![w] = "idle"]
    /\ resp' = Response(w, 201, NoError, req[w].id, NoInput)
    /\ req' = [req EXCEPT ![w] = NoRequest]
    /\ scanNow' = [scanNow EXCEPT ![w] = 0]
    /\ UNCHANGED <<workers, bucket, now, nextId, staged, cache, dispatched, scanList>>
    /\ UNCHANGED pureVars

\* upload_inbox_upload.delay raises (lines 297, 319): the exception leaves
\* the view
DelayRaises(w) ==
    /\ w \in workers
    /\ pc[w] \in {"delay", "reattempt"}
    /\ Raise(w, "delay")
    /\ UNCHANGED <<workers, bucket, now, nextId, staged, cache, dispatched>>
    /\ UNCHANGED pureVars

(***************************************************************************)
(* The environment: the clock and the downstream task.                     *)
(***************************************************************************)
\* A tick is a share of the reattempt threshold.  The clock advances while
\* the workers are idle or blocked in the staging write; the other steps of
\* a request take no noticeable share of a tick.
Tick ==
    /\ now < MaxTime
    /\ \A w \in AllWorkers : pc[w] \in {"idle", "put_object"}
    /\ now' = now + 1
    /\ resp' = NoResponse
    /\ UNCHANGED <<workers, bucket, db, nextId, staged, cache, dispatched, pc, req, txn,
                   scanList, scanNow>>
    /\ UNCHANGED pureVars

\* the downstream task works on a dispatched, committed Upload: it counts
\* the attempt and completes it or leaves it incomplete, or the upload is
\* cancelled
Process(id) ==
    /\ dispatched[id].new + dispatched[id].n > 0
    /\ \E r \in db :
         /\ r.id = id
         /\ ~r.completed /\ ~r.cancelled
         /\ r.attempts < UPLOAD_REATTEMPT_LIMIT_TIMES
         /\ \E outcome \in {"completed", "incomplete", "cancelled"} :
              db' = (db \ {r}) \cup
                    {[r EXCEPT !.attempts = IF outcome = "cancelled" THEN @ ELSE @ + 1,
                               !.completed = (outcome = "completed"),
                               !.cancelled = (outcome = "cancelled")]}
    /\ resp' = NoResponse
    /\ UNCHANGED <<workers, bucket, now, nextId, staged, cache, dispatched, pc, req, txn,
                   scanList, scanNow>>
    /\ UNCHANGED pureVars

\* an upload accepted at clock value 0 whose task has not completed it
StuckUpload == NewUpload(1, InboxKey(GoodListing, "symbols.zip", 0), 0, 1)

\* the deployment after that one accepted request, all workers idle
Deployed ==
    /\ AuxIdle
    /\ listingIn = << >>
    /\ listingOut = Pending
    /\ keyIn = << >>
    /\ keyOut = << >>
    /\ now = 0
    /\ db = {StuckUpload}
    /\ nextId = 2
    /\ staged = {StuckUpload.key}
    /\ cache = [i \in UploadIds |-> 0]
    /\ dispatched = [i \in UploadIds |->
                       IF i = 1 THEN [NoDelay EXCEPT !.new = 1] ELSE NoDelay]
    /\ pc = [w \in AllWorkers |-> "idle"]
    /\ req = [w \in AllWorkers |-> NoRequest]
    /\ txn = [w \in AllWorkers |-> {}]
    /\ scanList = [w \in AllWorkers |-> << >>]
    /\ scanNow = [w \in AllWorkers |-> 0]
    /\ resp = NoResponse

Init ==
    /\ workers = AllWorkers
    /\ bucket = "200"
    /\ Deployed

\* what a request does after it was received, and the environment
Continue ==
    \/ \E w \in AllWorkers : Stage(w)
    \/ \E w \in AllWorkers : Dispatch(w)
    \/ \E w \in AllWorkers : Filter(w)
    \/ \E w \in AllWorkers : Get(w)
    \/ \E w \in AllWorkers : Reattempt(w)
    \/ \E w \in AllWorkers : Respond(w)
    \/ \E w \in AllWorkers : DelayRaises(w)
    \/ \E id \in UploadIds : Process(id)
    \/ Tick

\* requests handled side by side by independent workers
Next ==
    \/ \E w \in AllWorkers : Receive(w, ConcurrentInputs)
    \/ Continue

Spec == Init /\ [][Next]_vars

\* the same program with one worker: requests run one after another
InitSeq ==
    /\ workers = {1}
    /\ bucket \in HeadBucketAnswers
    /\ Deployed

NextSeq ==
    \/ \E w \in AllWorkers : Receive(w, RequestInputs)
    \/ Continue

SpecSeq == InitSeq /\ [][NextSeq]_vars

\* Successful requests only, for what the reattempt loop achieves in the
\* long run: every request passes the input checks, the bucket is there,
\* the staging write and the delay calls return, and a worker that has a
\* step to take takes it.  The task and the clock run as they please.
AcceptedInputs == {i \in ConcurrentInputs : Rejection(i) = NoError}

StageWritten(w) == Stage(w) /\ pc'[w] = "delay"

RequestStep(w) ==
    \/ Receive(w, AcceptedInputs)
    \/ StageWritten(w)
    \/ Dispatch(w)
    \/ Filter(w)
    \/ Get(w)
    \/ Reattempt(w)
    \/ Respond(w)

NextLive ==
    \/ \E w \in AllWorkers : RequestStep(w)
    \/ \E id \in UploadIds : Process(id)
    \/ Tick

SpecLive ==
    /\ Init
    /\ [][NextLive]_vars
    /\ \A w \in AllWorkers : WF_vars(RequestStep(w))

(***************************************************************************)
(* What the specification says of a member name, stated on the characters  *)
(* of the name.                                                            *)
(***************************************************************************)
Slashes(name) == {i \in 1..Len(name) : name[i] = "/"}

HexOfEitherCase ==
    {"0","1","2","3","4","5","6","7","8","9",
     "a","b","c","d","e","f","A","B","C","D","E","F"}

\* <module>/<hex>/<file>: two slashes with only hex characters between them
ModuleHexFile(name) ==
    /\ Cardinality(Slashes(name)) = 2
    /\ \A i \in 1..Len(name) :
         (\E a \in Slashes(name) : a < i) /\ (\E b \in Slashes(name) : i < b)
            => name[i] \in HexOfEitherCase

\* <name>-symbols.txt in any case, with no slash
NameSymbolsTxt(name) ==
    /\ Slashes(name) = {}
    /\ Len(name) >= Len(SymbolsTxt)
    /\ \A k \in 1..Len(SymbolsTxt) :
         LowerChar(name[Len(name) - Len(SymbolsTxt) + k]) = SymbolsTxt[k]

\* the snippet occurs in the name
Occurs(snippet, name) ==
    \E i \in 1..Len(name) :
       /\ i + Len(snippet) - 1 <= Len(name)
       /\ \A j \in 1..Len(snippet) : name[i + j - 1] = snippet[j]

Denylisted(name) ==
    \E k \in 1..Len(DISALLOWED_SYMBOLS_SNIPPETS) :
       Occurs(DISALLOWED_SYMBOLS_SNIPPETS[k], name)

Violates(name) ==
    Denylisted(name) \/ ~(ModuleHexFile(name) \/ NameSymbolsTxt(name))

\* the members of the listing that violate a rule, by position
Violating(listing) == {i \in 1..Len(listing) : Violates(listing[i].name)}

FirstViolating(listing) ==
    CHOOSE i \in Violating(listing) : \A j \in Violating(listing) : i <= j

(***************************************************************************)
(* C9.  check_symbols_archive_file_listing returns no error exactly when   *)
(* every member is free of denylisted snippets and is <module>/<hex>/<file>*)
(* (hex in either case) or a single segment ending in -symbols.txt (any    *)
(* case); a listing whose first violating member carries no snippet gets   *)
(* the fixed 'Unrecognized file pattern' message.                          *)
(***************************************************************************)
C9_ValidatorAcceptsExactlyTheGrammar ==
    listingOut # Pending =>
       /\ (listingOut = NoError) <=> (Violating(listingIn) = {})
       /\ ( /\ Violating(listingIn) # {}
            /\ ~Denylisted(listingIn[FirstViolating(listingIn)].name) )
          => listingOut = UnrecognizedError

\* the two passing names of the specification, the hex id in upper case
C9_Witness ==
    /\ listingOut = NoError
    /\ Len(listingIn) = 2
    /\ listingIn[1].name = AppSym
    /\ listingIn[2].name = CrashSymbolsTxt

(***************************************************************************)
(* C10.  The validator reports the first violating member, in listing      *)
(* order: when that member contains a denylisted snippet the error names   *)
(* the first such snippet of the denylist, whatever the member's shape;    *)
(* otherwise it is the pattern message.  Later members play no part.       *)
(***************************************************************************)
C10_FirstViolationDenylistFirst ==
    (listingOut # Pending /\ Violating(listingIn) # {}) =>
       LET name == listingIn[FirstViolating(listingIn)].name
           hits == {k \in 1..Len(DISALLOWED_SYMBOLS_SNIPPETS) :
                       Occurs(DISALLOWED_SYMBOLS_SNIPPETS[k], name)}
       IN IF hits # {}
          THEN /\ listingOut.snippet =
                    DISALLOWED_SYMBOLS_SNIPPETS[CHOOSE k \in hits : \A j \in hits : k <= j]
               /\ listingOut = SnippetError(listingOut.snippet)
          ELSE listingOut = UnrecognizedError

\* a first member of four segments that holds both snippets, followed by a
\* member that violates the pattern rule
C10_Witness ==
    /\ Len(listingIn) = 2
    /\ Cardinality(Slashes(listingIn[1].name)) = 3
    /\ Occurs(<<"0","/","F">>, listingIn[1].name)
    /\ Occurs(<<"t","/","x">>, listingIn[1].name)
    /\ listingIn[2].name = ReadmeTxt
    /\ listingOut = SnippetError(<<"t","/","x">>)

(***************************************************************************)
(* C8.  As claimed: two accepted requests with the same listing get the    *)
(* same key on the same calendar day and keys that differ in the date part *)
(* only on different days, and different listings get different            *)
(* fingerprints.                                                           *)
(***************************************************************************)
SameDay(t, u) == (t \div DayLength) = (u \div DayLength)

C8_SameListingSameKey ==
    keyOut # << >> =>
       /\ keyIn[1].listing = keyIn[2].listing =>
             IF SameDay(keyIn[1].t, keyIn[2].t)
             THEN keyOut[1] = keyOut[2]
             ELSE /\ keyOut[1][2] # keyOut[2][2]
                  /\ \A k \in {1, 3, 4} : keyOut[1][k] = keyOut[2][k]
       /\ keyIn[1].listing # keyIn[2].listing => keyOut[1][3] # keyOut[2][3]

(***************************************************************************)
(* C8, amended.  Two accepted requests with the same listing and the same  *)
(* filename get the same key on the same calendar day and keys that differ *)
(* in the date part only on different days; the fingerprint part is the    *)
(* same whenever the listings are the same, and the last part is the       *)
(* filename.                                                               *)
(***************************************************************************)
C8_SameListingAndNameSameKey ==
    keyOut # << >> =>
       /\ (keyIn[1].listing = keyIn[2].listing /\ keyIn[1].name = keyIn[2].name) =>
             IF SameDay(keyIn[1].t, keyIn[2].t)
             THEN keyOut[1] = keyOut[2]
             ELSE /\ keyOut[1][2] # keyOut[2][2]
                  /\ \A k \in {1, 3, 4} : keyOut[1][k] = keyOut[2][k]
       /\ keyIn[1].listing = keyIn[2].listing => keyOut[1][3] = keyOut[2][3]
       /\ \A r \in 1..2 : keyOut[r][1] = "inbox" /\ keyOut[r][4] = keyIn[r].name

\* the same archive under the same name at two clock values of one day
C8_Witness ==
    /\ keyOut # << >>
    /\ keyIn[1].listing = keyIn[2].listing
    /\ keyIn[1].name = keyIn[2].name
    /\ keyIn[1].t # keyIn[2].t
    /\ SameDay(keyIn[1].t, keyIn[2].t)
    /\ keyOut[1] = keyOut[2]

(***************************************************************************)
(* The reattempt loop, seen from outside.                                  *)
(***************************************************************************)
\* this step is a call of upload_inbox_upload.delay(id) by the loop
Reattempted(id) == dispatched'[id].n > dispatched[id].n

\* this step is worker w's loop moving past the first row of its list
PassesRow(w) ==
    /\ pc[w] \in {"get", "reattempt"}
    /\ pc'[w] = "get"
    /\ scanList[w] # << >>
    /\ scanList'[w] = Tail(scanList[w])

AllRows == db \cup UNION {txn[w] : w \in AllWorkers}

(***************************************************************************)
(* C1.  With the scans run one after another: every row a scan visits has  *)
(* a re-dispatch inside the threshold window that ends at the visit (the   *)
(* scan made it, or an earlier scan did and the scan makes none), and two  *)
(* re-dispatches of one upload id are at least a threshold apart, so one   *)
(* window holds exactly one; once the entry has expired the next scan      *)
(* re-dispatches.                                                          *)
(***************************************************************************)
C1_OneReattemptPerWindow ==
    [][\A w \in AllWorkers :
          PassesRow(w) =>
             LET id == Head(scanList[w]).id IN
             /\ dispatched'[id].n >= 1
             /\ now < dispatched'[id].at + UPLOAD_REATTEMPT_LIMIT_SECONDS
             /\ Reattempted(id) =>
                   /\ dispatched'[id].n = dispatched[id].n + 1
                   /\ dispatched[id].n > 0 =>
                         now >= dispatched[id].at + UPLOAD_REATTEMPT_LIMIT_SECONDS
             /\ (dispatched[id].n > 0 /\
                 now >= dispatched[id].at + UPLOAD_REATTEMPT_LIMIT_SECONDS)
                   => Reattempted(id)]_vars

\* a second scan inside the window meets the entry the first scan set
C1_Witness ==
    /\ workers = {1}
    /\ pc[1] = "get"
    /\ scanList[1] # << >>
    /\ Head(scanList[1]).id = 1
    /\ dispatched[1].n = 1
    /\ dispatched[1].by # req[1].id
    /\ cache[1] > now

(***************************************************************************)
(* C2.  A request whose staging write failed leaves no Upload record of    *)
(* its own and no dispatch for it; an accepted request has both its record *)
(* and its staged bytes.                                                   *)
(***************************************************************************)
C2_StagingAllOrNothing ==
    /\ (resp.status = 500 /\ resp.error = Message("staging write")) =>
          /\ \A r \in AllRows : r.id # resp.id
          /\ dispatched[resp.id] = NoDelay
    /\ resp.status = 201 =>
          \E r \in db : r.id = resp.id /\ r.key \in staged

C2_Witness ==
    /\ resp.status = 500
    /\ resp.error = Message("staging write")
    /\ resp.id >= 2
    /\ nextId > resp.id

C4_RejectionLeavesNothing ==
    [][/\ resp'.status = 400 =>
             /\ db' = db /\ staged' = staged /\ txn' = txn
             /\ nextId' = nextId /\ dispatched' = dispatched /\ cache' = cache
             /\ resp'.id = 0
             /\ resp'.error.error \notin {"None", "pending"}
             /\ LET i == resp'.of IN
                /\ (i.files = 0 /\ ~i.url) =>
                      resp'.error.error =
                         "Must be multipart form data with at least one file"
                /\ ((i.files > 0 \/ i.form_valid) /\ i.size = 0) =>
                      resp'.error.error = "File size 0"
                /\ ((i.files > 0 \/ i.form_valid) /\ i.size # 0 /\ i.archive = "zip") =>
                      /\ Violating(i.listing) # {}
                      /\ resp'.error \in
                            {UnrecognizedError} \cup
                            {SnippetError(DISALLOWED_SYMBOLS_SNIPPETS[k]) :
                                k \in 1..Len(DISALLOWED_SYMBOLS_SNIPPETS)}
       /\ \A w \in AllWorkers : \A r \in txn'[w] : r.size # 0]_vars

\* a request of size zero whose archive could not have been opened
C4_Witness ==
    /\ resp.status = 400
    /\ resp.error = Message("File size 0")
    /\ resp.of.archive = "BadZipfile"
    /\ nextId > 2

(***************************************************************************)
(* C5.  An accepted request has made exactly one dispatch for the upload   *)
(* it created: the one after staging, and none from its own reattempt      *)
(* loop.                                                                   *)
(***************************************************************************)
C5_OneDispatchForNewUpload ==
    resp.status = 201 =>
       /\ dispatched[resp.id].new = 1
       /\ ~(dispatched[resp.id].n > 0 /\ dispatched[resp.id].by = resp.id)

(***************************************************************************)
(* C6.  As claimed: with concurrent workers two re-dispatches of one       *)
(* upload id are never less than a threshold apart.                        *)
(***************************************************************************)
C6_OneReattemptPerWindowConcurrent ==
    [][\A id \in UploadIds :
          (Reattempted(id) /\ dispatched[id].n > 0) =>
             now >= dispatched[id].at + UPLOAD_REATTEMPT_LIMIT_SECONDS]_vars

(***************************************************************************)
(* C6, amended.  A worker re-dispatches an upload id only after its own    *)
(* cache.get found no entry, so two re-dispatches of one id less than a    *)
(* threshold apart are made by different workers (the second worker's get  *)
(* ran before the first worker's set), and one worker makes at most one    *)
(* per window.                                                             *)
(***************************************************************************)
C6_OneReattemptPerWindowPerWorker ==
    [][\A id \in UploadIds :
          (Reattempted(id) /\ dispatched[id].n > 0 /\
           now < dispatched[id].at + UPLOAD_REATTEMPT_LIMIT_SECONDS) =>
             /\ dispatched'[id].w # dispatched[id].w
             /\ \E w \in AllWorkers : pc[w] = "reattempt" /\ pc'[w] = "get"
                                      /\ dispatched'[id].w = w]_vars

\* both workers read no entry for upload 1; one has re-dispatched it and set
\* the entry, the other is about to re-dispatch it in the same window
C6_Witness ==
    \E w \in AllWorkers :
       /\ pc[w] = "reattempt"
       /\ Head(scanList[w]).id = 1
       /\ cache[1] > now
       /\ dispatched[1].n = 1
       /\ dispatched[1].w # w

(***************************************************************************)
(* C7.  As claimed: an upload the loop re-dispatches is, when it is        *)
(* re-dispatched, incomplete, not cancelled, older than the threshold and  *)
(* below the attempt ceiling; the call is followed by setting the entry    *)
(* with the threshold as its time to live.                                 *)
(***************************************************************************)
C7_OnlyEligibleReattempted ==
    [][\A id \in UploadIds :
          Reattempted(id) =>
             /\ \E r \in AllRows :
                   /\ r.id = id
                   /\ ~r.completed /\ ~r.cancelled
                   /\ r.created_at < now - UPLOAD_REATTEMPT_LIMIT_SECONDS
                   /\ r.attempts < UPLOAD_REATTEMPT_LIMIT_TIMES
             /\ cache'[id] = now + UPLOAD_REATTEMPT_LIMIT_SECONDS]_vars

(***************************************************************************)
(* C7, amended.  The rows of a scan are those that were incomplete, not    *)
(* cancelled, older than the threshold and below the attempt ceiling when  *)
(* the scan's query was evaluated; the loop re-dispatches only the row it  *)
(* is at, once, and sets the entry with the threshold as its time to live. *)
(* (A row that is completed or cancelled, or reaches the ceiling, after    *)
(* the query is still re-dispatched.)                                      *)
(***************************************************************************)
C7_EligibleWhenFiltered ==
    /\ [](\A w \in AllWorkers : \A k \in 1..Len(scanList[w]) :
             LET r == scanList[w][k] IN
             /\ ~r.completed /\ ~r.cancelled
             /\ r.created_at < scanNow[w] - UPLOAD_REATTEMPT_LIMIT_SECONDS
             /\ r.attempts < UPLOAD_REATTEMPT_LIMIT_TIMES
             /\ \E c \in AllRows : c.id = r.id /\ c.created_at = r.created_at)
    /\ [][\A id \in UploadIds :
             Reattempted(id) =>
                /\ \E w \in AllWorkers : PassesRow(w) /\ Head(scanList[w]).id = id
                /\ dispatched'[id].n = dispatched[id].n + 1
                /\ cache'[id] = now + UPLOAD_REATTEMPT_LIMIT_SECONDS]_vars

\* upload 1 was completed after a scan listed it and was re-dispatched
C7_Witness ==
    /\ dispatched[1].n >= 1
    /\ cache[1] = dispatched[1].at + UPLOAD_REATTEMPT_LIMIT_SECONDS
    /\ \E r \in db : r.id = 1 /\ r.completed /\ r.attempts = 1
    /\ \E w \in AllWorkers : pc[w] = "get" /\ dispatched[1].w = w

(***************************************************************************)
(* C11.  get_bucket_info answers the default URL unless the requester's    *)
(* email matches an entry of the override table; the email and the keys    *)
(* are compared without regard to case; an entry whose key equals the      *)
(* email is preferred to every wildcard entry, and otherwise the first     *)
(* entry in table order that glob-matches gives the URL.                   *)
(***************************************************************************)
C11_ExactThenFirstWildcard ==
    bucketUrl # "" =>
       LET exact == {k \in 1..Len(exceptions) :
                        Lower(exceptions[k].key) = Lower(email)}
           first == FirstFnMatch(exceptions, email)
       IN IF exact # {}
          THEN \E k \in exact : bucketUrl = exceptions[k].url
          ELSE IF first # 0
               THEN bucketUrl = exceptions[first].url
               ELSE bucketUrl = UPLOAD_DEFAULT_URL

(***************************************************************************)
(* Requests, seen from outside.                                            *)
(***************************************************************************)
\* no request has got as far as creating a record since the deployment
NothingCreated ==
    /\ nextId = 2
    /\ \A r \in db : r.id = StuckUpload.id
    /\ staged = {StuckUpload.key}
    /\ \A w \in AllWorkers : pc[w] = "idle" /\ txn[w] = {} /\ scanList[w] = << >>
    /\ \A id \in UploadIds : dispatched[id].n = 0 /\ cache[id] = 0
    /\ \A id \in UploadIds \ {1} : dispatched[id] = NoDelay

\* the response answers a request that passed every check of its input
AnswersValidRequest == resp.of # NoInput /\ Rejection(resp.of) = NoError

(***************************************************************************)
(* C12.  While head_bucket answers 404 no request gets past the probe: a   *)
(* request that passed the input checks ends at once with the exception    *)
(* ImproperlyConfigured (a server error, not a 400), and no record is      *)
(* created, nothing is staged or dispatched and no reattempt loop runs.    *)
(* A request creates its record only when the probe succeeded.             *)
(***************************************************************************)
C12_MissingBucketIsFatal ==
    /\ [](bucket = "404" =>
             /\ NothingCreated
             /\ AnswersValidRequest =>
                   /\ resp.status = 500
                   /\ resp.error = Message("ImproperlyConfigured"))
    /\ [][\A w \in AllWorkers :
             (pc[w] = "idle" /\ pc'[w] = "put_object") => bucket = "200"]_vars

C12_Witness ==
    /\ bucket = "404"
    /\ AnswersValidRequest
    /\ resp.status = 500
    /\ resp.error = Message("ImproperlyConfigured")

(***************************************************************************)
(* C20.  While head_bucket is denied (403) or the store cannot be reached, *)
(* a request that passed the input checks ends with that exception and     *)
(* creates, stages, dispatches and scans nothing; a request reaches its    *)
(* dispatch only with its bytes staged, and when the staging write raises  *)
(* the request ends there with a server error: its row is gone, nothing    *)
(* was dispatched for it and no reattempt loop ran.                        *)
(***************************************************************************)
C20_StorageFailurePropagates ==
    /\ [](bucket \in {"403", "EndpointConnectionError"} =>
             /\ NothingCreated
             /\ AnswersValidRequest =>
                   /\ resp.status = 500
                   /\ resp.error = Message(IF bucket = "403" THEN "ClientError"
                                                             ELSE bucket))
    /\ [](\A w \in AllWorkers :
             pc[w] \in {"delay", "filter", "get", "reattempt"} =>
                req[w].key \in staged)
    /\ [][(resp'.error = Message("staging write") /\ resp' # resp) =>
             /\ resp'.status = 500
             /\ pc[resp'.w] = "put_object" /\ pc'[resp'.w] = "idle"
             /\ \A r \in db' \cup UNION {txn'[w] : w \in AllWorkers} :
                   r.id # resp'.id
             /\ dispatched' = dispatched /\ dispatched[resp'.id] = NoDelay
             /\ cache' = cache /\ staged' = staged
             /\ scanList'[resp'.w] = << >>]_vars

C20_Witness ==
    /\ bucket = "EndpointConnectionError"
    /\ AnswersValidRequest
    /\ resp.status = 500
    /\ resp.error = Message("EndpointConnectionError")

(***************************************************************************)
(* C18.  As claimed: a request stages its bytes before it creates its      *)
(* Upload record, dispatches after both, and is rejected only before the   *)
(* bucket is resolved.                                                     *)
(***************************************************************************)
C18_StagedThenRecorded ==
    /\ \A w \in AllWorkers : txn[w] # {} => pc[w] # "put_object"
    /\ \A w \in AllWorkers :
          (req[w].id # 0 /\ dispatched[req[w].id].new > 0) =>
             req[w].key \in staged /\ txn[w] # {}
    /\ resp.status = 400 => Rejection(resp.of) # NoError

(***************************************************************************)
(* C18, amended.  A request creates its Upload record (a row of its open   *)
(* transaction) before it stages its bytes, and dispatches after both:     *)
(* RECEIVED, LISTED, VALIDATED, BUCKET-RESOLVED, RECORDED, STAGED,         *)
(* DISPATCHED.  A 400 answers only a request that fails an input check,    *)
(* whatever the bucket's state; a request that passed them is not          *)
(* rejected.                                                               *)
(***************************************************************************)
C18_RecordedThenStaged ==
    /\ [](\A w \in AllWorkers :
             /\ pc[w] = "put_object" =>
                   /\ \E r \in txn[w] : r.id = req[w].id /\ r.key = req[w].key
                   /\ dispatched[req[w].id] = NoDelay
             /\ pc[w] = "delay" =>
                   /\ \E r \in txn[w] : r.id = req[w].id
                   /\ req[w].key \in staged
                   /\ dispatched[req[w].id] = NoDelay)
    /\ [](/\ resp.status = 400 => Rejection(resp.of) # NoError
          /\ (resp.of # NoInput /\ Rejection(resp.of) # NoError) => resp.status = 400)
    /\ [][\A id \in UploadIds :
             dispatched'[id].new > dispatched[id].new =>
                \E w \in AllWorkers :
                   /\ pc[w] = "delay" /\ req[w].id = id
                   /\ req[w].key \in staged
                   /\ \E r \in txn[w] : r.id = id]_vars

\* the record is created and its bytes are not staged yet
C18_Witness ==
    \E w \in AllWorkers :
       /\ pc[w] = "put_object"
       /\ txn[w] # {}
       /\ req[w].key \notin staged

(***************************************************************************)
(* C17.  As claimed: the wait sleeps 1, 2, 3, 4 seconds and no more, at    *)
(* most four times.                                                        *)
(***************************************************************************)
C17_FourSleeps ==
    /\ Len(slept) <= 4
    /\ \A k \in 1..Len(slept) : slept[k] = k

(***************************************************************************)
(* C17, amended.  The wait sleeps 1, 2, 3, 4, 5 seconds, at most five      *)
(* times (15 seconds in all), one sleep after each failed os.path.isfile;  *)
(* it always ends, and the request then carries on to the dispatch,        *)
(* whether or not the file became visible; it gives up on an invisible     *)
(* file only after the fifth sleep.                                        *)
(***************************************************************************)
C17_FiveSleepsThenDispatch ==
    /\ [](/\ Len(slept) <= 5
          /\ \A k \in 1..Len(slept) : slept[k] = k
          /\ (pollPc \in {"delay", "dispatched"} /\ ~IsFile) => Len(slept) = 5)
    /\ <>(pollPc = "dispatched")

\* the file never became visible: five sleeps, then the dispatch
C17_Witness ==
    /\ pollPc = "dispatched"
    /\ ~IsFile
    /\ slept = <<1, 2, 3, 4, 5>>

(***************************************************************************)
(* The reattempt loop in the long run.                                     *)
(***************************************************************************)
\* the committed row of upload id is incomplete, not cancelled and below
\* the attempt ceiling
Stuck(id) ==
    \E r \in db : /\ r.id = id
                  /\ ~r.completed /\ ~r.cancelled
                  /\ r.attempts < UPLOAD_REATTEMPT_LIMIT_TIMES

\* ... and older than the threshold
StuckAndOld(id) ==
    \E r \in db : /\ r.id = id
                  /\ ~r.completed /\ ~r.cancelled
                  /\ r.attempts < UPLOAD_REATTEMPT_LIMIT_TIMES
                  /\ r.created_at < now - UPLOAD_REATTEMPT_LIMIT_SECONDS

(***************************************************************************)
(* C19.  As claimed, the part on stopping: no upload is re-dispatched once *)
(* it is completed or cancelled or has reached the attempt ceiling.        *)
(***************************************************************************)
C19_NoReattemptOnceSettled ==
    [][\A id \in UploadIds : Reattempted(id) => Stuck(id)]_vars

(***************************************************************************)
(* C19, amended.  While successful requests keep coming, an upload that is *)
(* incomplete, not cancelled, below the attempt ceiling and older than the *)
(* threshold, and has no live throttle entry, is eventually re-dispatched  *)
(* (which sets its entry) unless it stops being such an upload first.  A   *)
(* scan lists only rows it can see that are incomplete, not cancelled and  *)
(* below the ceiling when its query is evaluated, so re-dispatching stops  *)
(* with the scans that start after an upload is settled; only              *)
(* re-dispatching sets a throttle entry.                                   *)
(***************************************************************************)
C19_EventuallyReattempted ==
    /\ \A id \in UploadIds :
          (StuckAndOld(id) /\ cache[id] <= now /\ nextId <= MaxUploads)
             ~> (cache[id] > now \/ ~Stuck(id))
    /\ [][/\ \A id \in UploadIds : cache'[id] # cache[id] => Reattempted(id)
          /\ \A w \in AllWorkers :
                (pc[w] = "filter" /\ pc'[w] = "get") =>
                   /\ \A k \in 1..Len(scanList'[w]) :
                         /\ scanList'[w][k] \in db \cup txn[w]
                         /\ ~scanList'[w][k].completed
                         /\ ~scanList'[w][k].cancelled
                         /\ scanList'[w][k].attempts < UPLOAD_REATTEMPT_LIMIT_TIMES
                   /\ \A id \in UploadIds :
                         StuckAndOld(id) =>
                            \E k \in 1..Len(scanList'[w]) : scanList'[w][k].id = id]_vars

\* upload 2 got stuck, grew old and was re-dispatched by a later request
C19_Witness ==
    /\ Stuck(2)
    /\ dispatched[2].n >= 1
    /\ dispatched[2].by = 3
    /\ cache[2] > now

(***************************************************************************)
(* The storage descriptor and its client.                                  *)
(***************************************************************************)
\* the descriptor has been computed
Resolved == storageBucket # Unresolved

(***************************************************************************)
(* C15.  Every URL gives a failure or a descriptor of exactly one backend  *)
(* variant, the first in the order emulated, alternate cloud, standard,    *)
(* test whose host pattern matches; a host that matches no pattern fails   *)
(* as an unknown backend, and a standard host whose region token is not    *)
(* in the table fails and is not given another variant.                    *)
(***************************************************************************)
C15_BackendSelection ==
    Resolved =>
       LET h == storageUrl.netloc
           emulated == Contains(h, EmulatedHost)
           alternate == Contains(h, AlternateCloudHost)
           standard == Contains(h, StandardDomain)
           test == Contains(h, TestHost)
           token == RegionToken(h)
           d == storageBucket
       IN /\ (d.error = "") # (VariantOf(d) = "")
          /\ d.error \in {"", "unknown backend", "unknown region"}
          /\ emulated => VariantOf(d) = "emulated"
          /\ (~emulated /\ alternate) => VariantOf(d) = "alternate-cloud"
          /\ (~emulated /\ ~alternate /\ standard) =>
                IF token = NoText THEN VariantOf(d) = "standard"
                ELSE IF token \in RecognizedRegions
                THEN VariantOf(d) = "region-pinned" /\ d.region = token
                ELSE d.error = "unknown region"
          /\ (~emulated /\ ~alternate /\ ~standard /\ test) => VariantOf(d) = "test"
          /\ (~emulated /\ ~alternate /\ ~standard /\ ~test) =>
                d.error = "unknown backend"

\* https://s3-unheardof.amazonaws.com/... was refused
C15_Witness ==
    /\ Resolved
    /\ Contains(storageUrl.netloc, StandardDomain)
    /\ RegionToken(storageUrl.netloc) \notin RecognizedRegions \cup {NoText}
    /\ storageBucket.error = "unknown region"

(***************************************************************************)
(* C16.  With a file prefix, the prefix of the descriptor is the prefix    *)
(* the URL gives without one, "/" and the file prefix, or the file prefix  *)
(* alone when the URL gives none; it has no "//" and no leading "/", and   *)
(* the path /bucket/fail/ with v1 gives fail/v1.                           *)
(***************************************************************************)
C16_FilePrefixJoined ==
    (Resolved /\ storageBucket.error = "" /\ filePrefix # NoText) =>
       LET parsed == StorageBucket(storageUrl, NoText).prefix
           prefix == storageBucket.prefix
       IN /\ prefix = IF parsed = NoText THEN filePrefix
                      ELSE parsed \o <<"/">> \o filePrefix
          /\ ~Contains(prefix, <<"/", "/">>)
          /\ ~StartsWith(prefix, <<"/">>)
          /\ (storageUrl.path = <<"/","b","u","c","k","e","t","/","f","a","i","l","/">> /\ filePrefix = <<"v","1">>)
                => prefix = <<"f","a","i","l","/","v","1">>

\* /bucket/fail/ with the file prefix v1
C16_Witness ==
    /\ Resolved
    /\ storageBucket.error = ""
    /\ storageUrl.path = <<"/","b","u","c","k","e","t","/","f","a","i","l","/">>
    /\ filePrefix = <<"v","1">>
    /\ storageBucket.prefix = <<"f","a","i","l","/","v","1">>

(***************************************************************************)
(* C13.  exists() gives True when the probe succeeds, False when the       *)
(* backend answers not-found, and StorageError for a refusal and for a     *)
(* failure of the transport: False is given for not-found only.            *)
(***************************************************************************)
C13_ExistsThreeOutcomes ==
    \A w \in AllWorkers :
       probe[w] # "" =>
          /\ existsOut[w] \in {"True", "False", "StorageError"}
          /\ probe[w] \in {"ok", "200"} <=> existsOut[w] = "True"
          /\ probe[w] \in {"NotFound", "ClientError 404"} <=> existsOut[w] = "False"
          /\ probe[w] \in {"Forbidden", "ClientError 403", "TransportError",
                           "EndpointConnectionError"}
                <=> existsOut[w] = "StorageError"

\* a bucket that may not be read: the call raised
C13_Witness ==
    \E w \in AllWorkers :
       /\ probe[w] \in {"Forbidden", "ClientError 403"}
       /\ existsOut[w] = "StorageError"

(***************************************************************************)
(* C14.  A descriptor's client is built at most once: every access gives   *)
(* the one handle, a client that is there is never replaced, and of        *)
(* several workers that use the descriptor for the first time together     *)
(* one builds the client and the others get that one.                      *)
(***************************************************************************)
C14_ClientBuiltOnce ==
    /\ [](/\ sessions <= 1
          /\ \A w \in AllWorkers : handle[w] # 0 => handle[w] = client
          /\ \A w \in AllWorkers : clientPc[w] \in {"probe", "reused", "done"}
                                      => handle[w] # 0)
    /\ [][/\ client # 0 => client' = client
          /\ sessions' # sessions => client = 0]_vars

\* both workers came to the descriptor before it had a client; one built
\* it, the other waited and got the same handle, and used it again later
C14_Witness ==
    /\ sessions = 1
    /\ clientPc[1] = "reused"
    /\ handle[1] = client
    /\ handle[2] = client
    /\ calls[2] = MaxCalls

(***************************************************************************)
(* The choice of the input (lines 114-144).                                *)
(***************************************************************************)
\* the two 400 responses of the choice of the input
SelectionErrors ==
    { Message("errors[0].message"),
      Message("Must be multipart form data with at least one file") }

(***************************************************************************)
(* C21.  As claimed: a request gets as far as its Upload record only when  *)
(* it carries exactly one uploaded file, or no file and a URL whose form   *)
(* is valid.                                                               *)
(***************************************************************************)
C21_ExactlyOneFileOrValidUrl ==
    [][\A w \in AllWorkers :
          (pc[w] = "idle" /\ pc'[w] = "put_object") =>
             \/ req'[w].of.files = 1
             \/ req'[w].of.files = 0 /\ req'[w].of.url /\ req'[w].of.form_valid]_vars

(***************************************************************************)
(* C21, amended.  A request gets as far as its Upload record only when it  *)
(* carries at least one uploaded file, or no file and a URL whose form is  *)
(* valid.  A request with no file and no URL, or with no file and a URL    *)
(* whose form is invalid, is answered 400 and leaves the record store, the *)
(* staging area, the dispatches and the throttle entries as they were.  A  *)
(* request with a file is never refused for its input, however many files  *)
(* it carries and whatever URL comes with them.                            *)
(***************************************************************************)
C21_AtLeastOneFileOrValidUrl ==
    [][/\ \A w \in AllWorkers :
             (pc[w] = "idle" /\ pc'[w] = "put_object") =>
                \/ req'[w].of.files >= 1
                \/ req'[w].of.files = 0 /\ req'[w].of.url /\ req'[w].of.form_valid
       /\ (/\ resp'.of # NoInput
           /\ resp'.of.files = 0
           /\ ~(resp'.of.url /\ resp'.of.form_valid)) =>
             /\ resp'.status = 400
             /\ resp'.error \in SelectionErrors
             /\ db' = db /\ staged' = staged /\ txn' = txn /\ nextId' = nextId
             /\ dispatched' = dispatched /\ cache' = cache
       /\ (resp'.status = 400 /\ resp'.error \in SelectionErrors) =>
             resp'.of.files = 0]_vars

\* a request with two files and a URL whose form is invalid was taken up,
\* and its upload has been handed to the task
C21_Witness ==
    \E w \in AllWorkers :
       /\ req[w].of.files = 2
       /\ ~req[w].of.form_valid
       /\ pc[w] = "filter"
       /\ dispatched[req[w].id].new = 1

(***************************************************************************)
(* Where the reattempt loop runs.                                          *)
(***************************************************************************)
\* the exceptions that end a request before its dispatch: the bucket probe
\* and the staging write
FailuresBeforeDispatch ==
    { Message("ImproperlyConfigured"), Message("ClientError"),
      Message("EndpointConnectionError"), Message("staging write") }

\* this step ends a request with a rejection, or with a failure of the
\* bucket probe or of the staging write
RejectedOrFailed ==
    /\ resp' # NoResponse
    /\ \/ resp'.status = 400
       \/ resp'.status = 500 /\ resp'.error \in FailuresBeforeDispatch

(***************************************************************************)
(* C22.  The step that rejects a request or ends it with a failure of the  *)
(* bucket probe or of the staging write re-dispatches nothing and leaves   *)
(* the throttle entries alone, and that request never re-dispatched        *)
(* anything; nor does the step that takes a request up.  The loop          *)
(* re-dispatches only for a request whose bytes are staged and whose own   *)
(* dispatch is done, and a throttle entry changes only with a re-dispatch. *)
(***************************************************************************)
C22_ScanOnlyAfterSuccess ==
    /\ [](\A w \in AllWorkers :
             /\ pc[w] \in {"idle", "put_object", "delay", "filter"} =>
                   scanList[w] = << >>
             /\ (pc[w] \in {"put_object", "delay"}) =>
                   \A id \in UploadIds : dispatched[id].by # req[w].id)
    /\ [][/\ RejectedOrFailed =>
                /\ cache' = cache
                /\ dispatched' = dispatched
                /\ scanList[resp'.w] = << >>
                /\ resp'.id # 0 =>
                      \A id \in UploadIds : dispatched[id].by # resp'.id
          /\ \A w \in AllWorkers :
                (pc[w] = "idle" /\ pc'[w] # "idle") =>
                   cache' = cache /\ dispatched' = dispatched
          /\ \A id \in UploadIds :
                Reattempted(id) =>
                   \E w \in AllWorkers :
                      /\ pc[w] = "reattempt"
                      /\ req[w].key \in staged
                      /\ dispatched[req[w].id].new = 1
                      /\ dispatched'[id].by = req[w].id
          /\ cache' # cache => \E id \in UploadIds : Reattempted(id)]_vars

\* the staging write of a request failed while an upload was waiting for a
\* reattempt: it was not re-dispatched
C22_Witness ==
    /\ resp.status = 500
    /\ resp.error = Message("staging write")
    /\ StuckAndOld(1)
    /\ cache[1] <= now
    /\ dispatched[1].n = 0

(***************************************************************************)
(* C23.  An upload id is handed to upload_inbox_upload.delay, by line 297  *)
(* or by the loop, only when its record is committed, and once the request *)
(* that dispatched a new upload is over the record of that upload is in    *)
(* the record store.                                                       *)
(***************************************************************************)
C23_DispatchedIsCommitted ==
    /\ [][\A id \in UploadIds :
             (dispatched'[id].new > dispatched[id].new \/ Reattempted(id)) =>
                \E r \in db : r.id = id]_vars
    /\ [](\A id \in UploadIds :
             (dispatched[id].new > 0 /\ \A w \in AllWorkers : req[w].id # id) =>
                \E r \in db : r.id = id)

====
